---------------------------- MODULE Spec2Model ----------------------------
(***************************************************************************)
(* stdbuf (src/stdbuf.rs): the mode-token parser (parse_size,              *)
(* check_option), the option resolver (parse_options over getopts) and     *)
(* the prefix scan of main that locates the wrapped command.               *)
(*                                                                         *)
(* Strings are sequences of one-character strings, so that trimming,       *)
(* splitting and concatenation are computed as the code computes them.     *)
(* u64 values are little-endian sequences of eight 8-bit limbs, so that    *)
(* 64-bit wrap-around is computed exactly.                                 *)
(***************************************************************************)
EXTENDS Integers, Sequences, FiniteSets, TLC

----------------------------------------------------------------------------
(* Characters *)

\* char::is_digit(10), src/stdbuf.rs:63
DigitChars == {"0", "1", "2", "3", "4", "5", "6", "7", "8", "9"}

\* char::is_alphabetic, src/stdbuf.rs:64 (restricted to the ASCII letters)
AlphabeticChars ==
    {"A", "B", "C", "D", "E", "F", "G", "H", "I", "J", "K", "L", "M",
     "N", "O", "P", "Q", "R", "S", "T", "U", "V", "W", "X", "Y", "Z",
     "a", "b", "c", "d", "e", "f", "g", "h", "i", "j", "k", "l", "m",
     "n", "o", "p", "q", "r", "s", "t", "u", "v", "w", "x", "y", "z"}

\* char::to_digit(10) as used by from_str, src/stdbuf.rs:70
DigitValue(c) ==
    CASE c = "0" -> 0 [] c = "1" -> 1 [] c = "2" -> 2 [] c = "3" -> 3
      [] c = "4" -> 4 [] c = "5" -> 5 [] c = "6" -> 6 [] c = "7" -> 7
      [] c = "8" -> 8 [] c = "9" -> 9

\* str::trim_left_chars with a character-class closure, src/stdbuf.rs:63
trim_left_chars(s, class) ==
    LET keep == {k \in 1..Len(s) : s[k] \notin class}
        first == IF keep = {} THEN Len(s) + 1
                 ELSE CHOOSE k \in keep : \A j \in keep : k <= j
    IN  SubSeq(s, first, Len(s))

\* str::trim_right_chars with a character-class closure, src/stdbuf.rs:64
trim_right_chars(s, class) ==
    LET keep == {k \in 1..Len(s) : s[k] \notin class}
        last == IF keep = {} THEN 0
                ELSE CHOOSE k \in keep : \A j \in keep : j <= k
    IN  SubSeq(s, 1, last)

----------------------------------------------------------------------------
(* Unsigned 64-bit arithmetic *)

\* width of u64, the type of buf_size and base, src/stdbuf.rs:70 and :74
U64Bits == 64

\* limbs are bytes
Limb == 2 ^ 8
U64Limbs == U64Bits \div 8

\* Naturals of any size: little-endian limb sequences.
RECURSIVE Propagate(_, _)
Propagate(cols, carry) ==
    IF cols = << >>
    THEN IF carry = 0 THEN << >>
         ELSE <<carry % Limb>> \o Propagate(<< >>, carry \div Limb)
    ELSE LET t == Head(cols) + carry
         IN  <<t % Limb>> \o Propagate(Tail(cols), t \div Limb)

LimbAt(a, k) == IF k >= 1 /\ k <= Len(a) THEN a[k] ELSE 0

RECURSIVE ColumnSum(_, _, _, _)
ColumnSum(a, b, k, i) ==
    IF i > Len(a) THEN 0
    ELSE a[i] * LimbAt(b, k + 1 - i) + ColumnSum(a, b, k, i + 1)

NatMul(a, b) ==
    Propagate([k \in 1..(Len(a) + Len(b)) |-> ColumnSum(a, b, k, 1)], 0)

NatAdd(a, b) ==
    LET n == IF Len(a) >= Len(b) THEN Len(a) ELSE Len(b)
    IN  Propagate([k \in 1..n |-> LimbAt(a, k) + LimbAt(b, k)], 0)

NatOfInt(n) == Propagate(<<n>>, 0)

\* the value fits in 64 bits
FitsU64(a) == \A k \in 1..Len(a) : k > U64Limbs => a[k] = 0

\* the value modulo 2^64, as a u64
LowU64(a) == [k \in 1..U64Limbs |-> LimbAt(a, k)]

U64(n) == LowU64(NatOfInt(n))

\* u64 `*` of the toolchain this source compiles with (no overflow check:
\* the product is reduced modulo 2^64), src/stdbuf.rs:94
wrapping_mul(x, y) == LowU64(NatMul(x, y))

None == [some |-> FALSE]
Some(v) == [some |-> TRUE, val |-> v]

\* Int::checked_mul / checked_add, used by from_str, src/stdbuf.rs:70
checked_mul(x, y) ==
    LET p == NatMul(x, y) IN IF FitsU64(p) THEN Some(LowU64(p)) ELSE None

checked_add(x, y) ==
    LET p == NatAdd(x, y) IN IF FitsU64(p) THEN Some(LowU64(p)) ELSE None

\* Int::pow (square and multiply, wrapping), src/stdbuf.rs:94
RECURSIVE pow_loop(_, _, _)
pow_loop(base, acc, exp) ==
    IF exp = 0 THEN acc
    ELSE pow_loop(wrapping_mul(base, base),
                  IF exp % 2 = 1 THEN wrapping_mul(acc, base) ELSE acc,
                  exp \div 2)

pow(base, exp) == pow_loop(base, U64(1), exp)

\* from_str::<u64>: decimal digits only, None on an empty string, on a
\* character that is no digit and on overflow, src/stdbuf.rs:70-73
RECURSIVE from_str_loop(_, _)
from_str_loop(src, result) ==
    IF src = << >> THEN Some(result)
    ELSE IF Head(src) \notin DigitChars THEN None
    ELSE LET m == checked_mul(result, U64(10))
         IN  IF ~m.some THEN None
             ELSE LET r == checked_add(m.val, U64(DigitValue(Head(src))))
                  IN  IF ~r.some THEN None
                      ELSE from_str_loop(Tail(src), r.val)

from_str(src) == IF src = << >> THEN None ELSE from_str_loop(src, U64(0))

----------------------------------------------------------------------------
(* parse_size *)

\* the match on ext, src/stdbuf.rs:74-93: (power, base) or None
unit_of(ext) ==
    CASE ext = << >>       -> Some([power |-> 0, base |-> 0])
      [] ext = <<"K", "B">> -> Some([power |-> 1, base |-> 1024])
      [] ext = <<"K">>      -> Some([power |-> 1, base |-> 1000])
      [] ext = <<"M", "B">> -> Some([power |-> 2, base |-> 1024])
      [] ext = <<"M">>      -> Some([power |-> 2, base |-> 1000])
      [] ext = <<"G", "B">> -> Some([power |-> 3, base |-> 1024])
      [] ext = <<"G">>      -> Some([power |-> 3, base |-> 1000])
      [] ext = <<"T", "B">> -> Some([power |-> 4, base |-> 1024])
      [] ext = <<"T">>      -> Some([power |-> 4, base |-> 1000])
      [] ext = <<"P", "B">> -> Some([power |-> 5, base |-> 1024])
      [] ext = <<"P">>      -> Some([power |-> 5, base |-> 1000])
      [] ext = <<"E", "B">> -> Some([power |-> 6, base |-> 1024])
      [] ext = <<"E">>      -> Some([power |-> 6, base |-> 1000])
      [] ext = <<"Z", "B">> -> Some([power |-> 7, base |-> 1024])
      [] ext = <<"Z">>      -> Some([power |-> 7, base |-> 1000])
      [] ext = <<"Y", "B">> -> Some([power |-> 8, base |-> 1024])
      [] ext = <<"Y">>      -> Some([power |-> 8, base |-> 1000])
      [] OTHER              -> None

\* scale the number by the unit, src/stdbuf.rs:74-94
scaled(buf_size, unit) ==
    IF ~unit.some THEN None
    ELSE Some(wrapping_mul(buf_size, pow(U64(unit.val.base), unit.val.power)))

\* parse_size taking a number that does not parse as 0
parse_size_NumberDefaultsToZero(size) ==
    IF trim_right_chars(size, AlphabeticChars)
           \o trim_left_chars(size, DigitChars) # size
    THEN None
    ELSE IF ~from_str(trim_right_chars(size, AlphabeticChars)).some
    THEN scaled(U64(0), unit_of(trim_left_chars(size, DigitChars)))
    ELSE scaled(from_str(trim_right_chars(size, AlphabeticChars)).val,
                unit_of(trim_left_chars(size, DigitChars)))

\* fn parse_size(size : &str) -> Option<u64>, src/stdbuf.rs:62-95
parse_size(size) ==
    LET ext == trim_left_chars(size, DigitChars)
        num == trim_right_chars(size, AlphabeticChars)
        recovered == num \o ext
        buf_size == from_str(num)
    IN  IF recovered # size THEN None
        ELSE IF ~buf_size.some THEN None
        ELSE scaled(buf_size.val, unit_of(ext))

----------------------------------------------------------------------------
(* getopts, as called at src/stdbuf.rs:125 with the groups of :153-159 *)

\* optopt / optflag groups of main, src/stdbuf.rs:153-159.  Every group is
\* Optional (at most one occurrence); the long name is the option's name and
\* the short name, when there is one, its alias.
optgrps ==
    << [long |-> <<"i", "n", "p", "u", "t">>,      short |-> <<"i">>, hasarg |-> "Yes"],
       [long |-> <<"o", "u", "t", "p", "u", "t">>, short |-> <<"o">>, hasarg |-> "Yes"],
       [long |-> <<"e", "r", "r", "o", "r">>,      short |-> <<"e">>, hasarg |-> "Yes"],
       [long |-> <<"h", "e", "l", "p">>,           short |-> << >>,   hasarg |-> "No"],
       [long |-> <<"v", "e", "r", "s", "i", "o", "n">>, short |-> << >>, hasarg |-> "No"] >>

Long(s) == [kind |-> "Long", name |-> s]
Short(c) == [kind |-> "Short", name |-> <<c>>]

Given == [kind |-> "Given"]
Val(s) == [kind |-> "Val", val |-> s]

\* getopts::find_opt: the position of the group named nm (by name, then by
\* alias), 0 when there is none
find_opt(nm) ==
    LET hits == {k \in 1..Len(optgrps) :
                    \/ nm.kind = "Long" /\ optgrps[k].long = nm.name
                    \/ nm.kind = "Short" /\ optgrps[k].short = nm.name}
    IN  IF hits = {} THEN 0 ELSE CHOOSE k \in hits : \A j \in hits : k <= j

\* getopts::is_arg
is_arg(arg) == Len(arg) > 1 /\ arg[1] = "-"

\* the first two pieces of tail.split('='): <<piece 0>> when there is no '=',
\* <<piece 0, piece 1>> otherwise
split_eq(tail) ==
    LET eqs(s) == {k \in 1..Len(s) : s[k] = "="}
        firstEq(s) == CHOOSE k \in eqs(s) : \A j \in eqs(s) : k <= j
    IN  IF eqs(tail) = {} THEN <<tail>>
        ELSE LET rest == SubSeq(tail, firstEq(tail) + 1, Len(tail))
             IN  << SubSeq(tail, 1, firstEq(tail) - 1),
                    IF eqs(rest) = {} THEN rest
                    ELSE SubSeq(rest, 1, firstEq(rest) - 1) >>

GetoptsErr(e) == [ok |-> FALSE, err |-> e]

\* the scan of a short-option cluster "-abc": the names seen, and the rest of
\* the token as the argument once an option that takes one is met
RECURSIVE short_names(_, _, _)
short_names(cur, j, names) ==
    IF j > Len(cur) THEN [ok |-> TRUE, names |-> names, i_arg |-> None]
    ELSE LET opt_id == find_opt(Short(cur[j]))
         IN  IF opt_id = 0 THEN GetoptsErr("UnrecognizedOption")
             ELSE IF optgrps[opt_id].hasarg = "Yes" /\ j < Len(cur)
                  THEN [ok |-> TRUE, names |-> Append(names, Short(cur[j])),
                        i_arg |-> Some(SubSeq(cur, j + 1, Len(cur)))]
                  ELSE short_names(cur, j + 1, Append(names, Short(cur[j])))

\* the names and the inline argument of one option token
token_names(cur) ==
    IF cur[2] = "-"
    THEN LET tail_eq == split_eq(SubSeq(cur, 3, Len(cur)))
         IN  IF Len(tail_eq) <= 1
             THEN [ok |-> TRUE, names |-> <<Long(tail_eq[1])>>, i_arg |-> None]
             ELSE [ok |-> TRUE, names |-> <<Long(tail_eq[1])>>,
                   i_arg |-> Some(tail_eq[2])]
    ELSE short_names(cur, 2, << >>)

\* the loop over the names of one token: records each occurrence, taking the
\* next argument as the value of an option that has no inline one
RECURSIVE names_loop(_, _, _, _, _, _)
names_loop(argv, i, names, name_pos, i_arg, vals) ==
    IF name_pos > Len(names) THEN [ok |-> TRUE, i |-> i, vals |-> vals]
    ELSE LET optid == find_opt(names[name_pos])
         IN  IF optid = 0 THEN GetoptsErr("UnrecognizedOption")
             ELSE IF optgrps[optid].hasarg = "No"
             THEN IF name_pos = Len(names) /\ i_arg.some
                  THEN GetoptsErr("UnexpectedArgument")
                  ELSE names_loop(argv, i, names, name_pos + 1, i_arg,
                           [vals EXCEPT ![optid] = Append(@, Given)])
             ELSE IF i_arg.some
                  THEN names_loop(argv, i, names, name_pos + 1, i_arg,
                           [vals EXCEPT ![optid] = Append(@, Val(i_arg.val))])
                  ELSE IF i = Len(argv)
                  THEN GetoptsErr("ArgumentMissing")
                  ELSE names_loop(argv, i + 1, names, name_pos + 1, i_arg,
                           [vals EXCEPT ![optid] = Append(@, Val(argv[i + 1]))])

\* the loop over the arguments: free arguments do not end option parsing,
\* "--" does and makes every later argument free
RECURSIVE getopts_loop(_, _, _, _)
after_names(argv, r, free) ==
    IF ~r.ok THEN r ELSE getopts_loop(argv, r.i + 1, r.vals, free)

option_token(argv, i, t, vals, free) ==
    IF ~t.ok THEN t
    ELSE after_names(argv, names_loop(argv, i, t.names, 1, t.i_arg, vals), free)

getopts_loop(argv, i, vals, free) ==
    IF i > Len(argv) THEN [ok |-> TRUE, vals |-> vals, free |-> free]
    ELSE IF ~is_arg(argv[i])
    THEN getopts_loop(argv, i + 1, vals, Append(free, argv[i]))
    ELSE IF argv[i] = <<"-", "-">>
    THEN [ok |-> TRUE, vals |-> vals,
          free |-> free \o SubSeq(argv, i + 1, Len(argv))]
    ELSE option_token(argv, i, token_names(argv[i]), vals, free)

\* the occurrence check that ends getopts: every group is Optional
check_occurrences(m) ==
    IF ~m.ok THEN m
    ELSE IF \E k \in 1..Len(optgrps) : Len(m.vals[k]) > 1
         THEN GetoptsErr("OptionDuplicated")
         ELSE m

\* getopts::getopts(args, optgrps) -> Result<Matches, Fail>
getopts(argv) ==
    check_occurrences(
        getopts_loop(argv, 1, [k \in 1..Len(optgrps) |-> << >>], << >>))

\* Matches::opt_present
opt_present(matches, nm) == matches.vals[find_opt(Long(nm))] # << >>

\* Matches::opt_str
opt_str(matches, nm) ==
    LET vals == matches.vals[find_opt(Long(nm))]
    IN  IF vals = << >> THEN None
        ELSE IF vals[1].kind = "Val" THEN Some(vals[1].val) ELSE None

----------------------------------------------------------------------------
(* check_option and parse_options *)

\* enum BufferType, src/stdbuf.rs:25-30
Default == [type |-> "Default"]
Unbuffered == [type |-> "Unbuffered"]
Line == [type |-> "Line"]
Size(n) == [type |-> "Size", size |-> n]

\* the option names parse_options asks for, src/stdbuf.rs:129-138
input == <<"i", "n", "p", "u", "t">>
output == <<"o", "u", "t", "p", "u", "t">>
error == <<"e", "r", "r", "o", "r">>
help == <<"h", "e", "l", "p">>
version == <<"v", "e", "r", "s", "i", "o", "n">>

\* check_option without the test of the name in the "L" arm
check_option_LineForInput(matches, name, modified) ==
    IF ~opt_str(matches, name).some
    THEN [val |-> Some(Default), modified |-> modified, out |-> << >>]
    ELSE IF opt_str(matches, name).val = <<"0">>
    THEN [val |-> Some(Unbuffered), modified |-> TRUE, out |-> << >>]
    ELSE IF opt_str(matches, name).val = <<"L">>
    THEN [val |-> Some(Line), modified |-> TRUE, out |-> << >>]
    ELSE [val |-> None, modified |-> TRUE, out |-> <<"Invalid mode">>]

\* fn check_option(matches, name, modified) -> Option<BufferType>,
\* src/stdbuf.rs:97-122; `modified` is the &mut bool, `out` what it prints
check_option(matches, name, modified) ==
    LET value == opt_str(matches, name)
    IN  IF ~value.some
        THEN [val |-> Some(Default), modified |-> modified, out |-> << >>]
        ELSE IF value.val = <<"0">>
        THEN [val |-> Some(Unbuffered), modified |-> TRUE, out |-> << >>]
        ELSE IF value.val = <<"L">>
        THEN IF name = input
             THEN [val |-> None, modified |-> TRUE,
                   out |-> <<"stdbuf: line buffering stdin is meaningless">>]
             ELSE [val |-> Some(Line), modified |-> TRUE, out |-> << >>]
        ELSE LET sz == parse_size(value.val)
             IN  IF ~sz.some
                 THEN [val |-> None, modified |-> TRUE, out |-> <<"Invalid mode">>]
                 ELSE [val |-> Some(Size(sz.val)), modified |-> TRUE, out |-> << >>]

\* the return value of parse_options together with its effects: `options`
\* is the value of the &mut ProgramOptions on return, `out` what was printed
Outcome(res, options, out) == [res |-> res, options |-> options, out |-> out]

\* after_error without the test of `modified`
after_error_NoModifiedTest(matches, options, modified, out) ==
    IF Len(matches.free) # 1 THEN Outcome("Retry", options, out)
    ELSE Outcome("Buffering", options, out)

\* after_error reporting a missing operand when it asks for a retry
after_error_MissingOperand(matches, options, modified, out) ==
    IF Len(matches.free) # 1
    THEN Outcome("Retry", options, Append(out, "stdbuf: missing operand"))
    ELSE IF ~modified
    THEN Outcome("Fatal", options,
             Append(out, "stdbuf: you must specify a buffering mode option"))
    ELSE Outcome("Buffering", options, out)

\* src/stdbuf.rs:140-147, after the three stream options resolved
after_error(matches, options, modified, out) ==
    IF Len(matches.free) # 1 THEN Outcome("Retry", options, out)
    ELSE IF ~modified
    THEN Outcome("Fatal", options,
             Append(out, "stdbuf: you must specify a buffering mode option"))
    ELSE Outcome("Buffering", options, out)

\* options.stderr = try!(..), src/stdbuf.rs:138
assign_error(matches, options, c, out) ==
    IF ~c.val.some THEN Outcome("Fatal", options, out \o c.out)
    ELSE after_error(matches, [options EXCEPT !.stderr = c.val.val],
                     c.modified, out \o c.out)

\* options.stdout = try!(..), src/stdbuf.rs:137
assign_output(matches, options, c, out) ==
    IF ~c.val.some THEN Outcome("Fatal", options, out \o c.out)
    ELSE assign_error(matches, [options EXCEPT !.stdout = c.val.val],
                      check_option(matches, error, c.modified), out \o c.out)

\* options.stdin = try!(..), src/stdbuf.rs:136
assign_input(matches, options, c) ==
    IF ~c.val.some THEN Outcome("Fatal", options, c.out)
    ELSE assign_output(matches, [options EXCEPT !.stdin = c.val.val],
                       check_option(matches, output, c.modified), c.out)

\* on_matches counting the positional arguments before resolving the modes
on_matches_PositionalsFirst(matches, options) ==
    IF ~matches.ok THEN Outcome("Retry", options, << >>)
    ELSE IF opt_present(matches, help) THEN Outcome("Help", options, << >>)
    ELSE IF opt_present(matches, version) THEN Outcome("Version", options, << >>)
    ELSE IF Len(matches.free) # 1 THEN Outcome("Retry", options, << >>)
    ELSE assign_input(matches, options, check_option(matches, input, FALSE))

\* src/stdbuf.rs:125-135, on the result of getopts
on_matches(matches, options) ==
    IF ~matches.ok THEN Outcome("Retry", options, << >>)
    ELSE IF opt_present(matches, help) THEN Outcome("Help", options, << >>)
    ELSE IF opt_present(matches, version) THEN Outcome("Version", options, << >>)
    ELSE assign_input(matches, options, check_option(matches, input, FALSE))

\* fn parse_options(args, options, optgrps) -> Result<OkMsg, ErrMsg>,
\* src/stdbuf.rs:124-148
parse_options(argv, options) == on_matches(getopts(argv), options)

----------------------------------------------------------------------------
(* Inputs *)

MaxArgs == 4

\* the arguments the command lines are made of
ArgTokens ==
    { <<"-", "o">>, <<"-", "i">>, <<"-", "e">>, <<"L">>, <<"0">>,
      <<"-", "-">>, <<"c", "m", "d">>,
      <<"-", "-", "h", "e", "l", "p">>,
      <<"-", "-", "v", "e", "r", "s", "i", "o", "n">>,
      <<"-", "x">> }

\* longer command lines: every stream set; a "--" before a command whose own
\* arguments are options of the tool; a size given inline to a long option
ExampleArgs ==
    { << <<"-", "i">>, <<"0">>, <<"-", "o">>, <<"L">>, <<"-", "e">>, <<"L">>,
         <<"c", "m", "d">> >>,
      << <<"-", "o">>, <<"L">>, <<"-", "-">>, <<"c", "m", "d">>,
         <<"-", "o">>, <<"x">> >>,
      << <<"-", "-", "o", "u", "t", "p", "u", "t", "=", "6", "4", "M", "B">>,
         <<"-", "e", "0">>, <<"c", "a", "t">>, <<"-", "-", "h", "e", "l", "p">>,
         <<"-", "i">>, <<"L">> >> }

NAME == <<"s", "t", "d", "b", "u", "f">>

\* os::args(): the program name followed by the arguments a
ArgVector(a) == <<NAME>> \o a

----------------------------------------------------------------------------
(* main *)

VARIABLES
    args,          \* os::args(), src/stdbuf.rs:152 (Rust index k is args[k+1])
    options,       \* let mut options, src/stdbuf.rs:160
    command_idx,   \* let mut command_idx, src/stdbuf.rs:161 (-1: none yet)
    i,             \* the loop variable of src/stdbuf.rs:162
    pc,            \* where main is: "loop", "after", "done", "panicked" ("idle":
                   \* not run)
    printed,       \* what has been printed, one entry per println!
    exit_status,   \* the process exit status
    child,         \* the command handed to Command::new(..).args(..).spawn()
    size,          \* a mode token: the argument of parse_size
    stream,        \* the option it is given to: the name check_option gets
    parsed,        \* the value parse_size returned for size
    resolved,      \* what check_option returned for it
    spc            \* "idle", or where the parser run is: "start", "parsed",
                   \* "checked"

mainVars == <<args, options, command_idx, i, pc, printed, exit_status, child>>
sizeVars == <<size, stream, parsed, resolved, spc>>
vars == <<mainVars, sizeVars>>

\* args.slice(from, to), src/stdbuf.rs:163
slice(a, from, to) == SubSeq(a, from + 1, to)
\* args.slice_from(from), src/stdbuf.rs:189
slice_from(a, from) == SubSeq(a, from + 1, Len(a))

NoChild == [spawned |-> FALSE]

\* ProgramOptions{ stdin : Default, stdout : Default, stderr : Default },
\* src/stdbuf.rs:160
DefaultOptions == [stdin |-> Default, stdout |-> Default, stderr |-> Default]

Init ==
    /\ \/ \E n \in 0..MaxArgs : \E a \in [1..n -> ArgTokens] : args = ArgVector(a)
       \/ \E a \in ExampleArgs : args = ArgVector(a)
    /\ options = DefaultOptions
    /\ command_idx = -1
    /\ i = 1
    /\ pc = "loop"
    /\ printed = << >>
    /\ exit_status = 0
    /\ child = NoChild
    /\ size = << >>
    /\ stream = input
    /\ parsed = None
    /\ resolved = None
    /\ spc = "idle"

\* the call of src/stdbuf.rs:163 in the current iteration
Attempt == parse_options(slice(args, 1, i), options)

\* what the arm taken prints, src/stdbuf.rs:166, :170, :174
ArmOutput(res) ==
    CASE res = "Buffering" -> <<"Program arg index">>
      [] res = "Help" -> <<"usage">>
      [] res = "Version" -> <<"stdbuf version 1.0.0">>
      [] OTHER -> << >>

\* ArmCommandIdx taking the loop variable itself as the index
ArmCommandIdx_LoopVariable(res) == IF res = "Buffering" THEN i ELSE command_idx

\* command_idx after the arm taken, src/stdbuf.rs:165
ArmCommandIdx(res) == IF res = "Buffering" THEN i - 1 ELSE command_idx

\* the loop variable after the arm taken: continue on Retry, src/stdbuf.rs:178
ArmNextI(res) == IF res = "Retry" THEN i + 1 ELSE i

\* ArmPc with the Help and Version arms breaking out of the loop
ArmPc_HelpBreaks(res) == IF res = "Retry" THEN "loop" ELSE "after"

\* where main is after the arm taken: Help and Version return, Buffering and
\* Fatal break, Retry continues, src/stdbuf.rs:164-178
ArmPc(res) ==
    CASE res \in {"Help", "Version"} -> "done"
      [] res \in {"Buffering", "Fatal"} -> "after"
      [] OTHER -> "loop"

\* the match of src/stdbuf.rs:163-179 on the value r the call returned
Match(r) ==
    /\ options' = r.options
    /\ printed' = printed \o r.out \o ArmOutput(r.res)
    /\ command_idx' = ArmCommandIdx(r.res)
    /\ i' = ArmNextI(r.res)
    /\ pc' = ArmPc(r.res)

\* one iteration of the loop of src/stdbuf.rs:162-180
Iterate ==
    /\ pc = "loop"
    /\ i <= Len(args)
    /\ Match(Attempt)
    /\ UNCHANGED <<args, exit_status, child, sizeVars>>

\* range_inclusive(1, args.len()) is exhausted, src/stdbuf.rs:162
LoopEnd ==
    /\ pc = "loop"
    /\ i > Len(args)
    /\ pc' = "after"
    /\ UNCHANGED <<args, options, command_idx, i, printed, exit_status, child,
                   sizeVars>>

\* InvalidOptions without set_exit_status
InvalidOptions_NoExitStatus ==
    /\ pc = "after"
    /\ command_idx = -1
    /\ printed' = Append(printed, "Invalid options")
    /\ pc' = "done"
    /\ UNCHANGED <<args, options, command_idx, i, exit_status, child, sizeVars>>

\* if command_idx == -1 { println!; set_exit_status(125); return },
\* src/stdbuf.rs:181-185
InvalidOptions ==
    /\ pc = "after"
    /\ command_idx = -1
    /\ printed' = Append(printed, "Invalid options")
    /\ exit_status' = 125
    /\ pc' = "done"
    /\ UNCHANGED <<args, options, command_idx, i, child, sizeVars>>

\* the command main spawns, src/stdbuf.rs:188-189
Command == [spawned |-> TRUE, name |-> args[command_idx + 1],
            args |-> slice_from(args, command_idx + 1)]

\* println!("{}", options); spawn succeeds; the child's output is printed,
\* src/stdbuf.rs:186-195
SpawnOk ==
    /\ pc = "after"
    /\ command_idx # -1
    /\ child' = Command
    /\ printed' = printed \o <<"ProgramOptions", "child output">>
    /\ pc' = "done"
    /\ UNCHANGED <<args, options, command_idx, i, exit_status, sizeVars>>

\* println!("{}", options); spawn fails: panic!, src/stdbuf.rs:186-191
SpawnErr ==
    /\ pc = "after"
    /\ command_idx # -1
    /\ child' = Command
    /\ printed' = Append(printed, "ProgramOptions")
    /\ exit_status' = 101
    /\ pc' = "panicked"
    /\ UNCHANGED <<args, options, command_idx, i, sizeVars>>

Next ==
    \/ Iterate
    \/ LoopEnd
    \/ InvalidOptions
    \/ SpawnOk
    \/ SpawnErr

Spec == Init /\ [][Next]_vars

----------------------------------------------------------------------------
(* The mode-token parser on its own *)

MaxDigits == 2

\* the digits and the suffixes the mode tokens are made of
TokenDigits == {"0", "1", "4", "6", "9"}

TokenSuffixes ==
    { << >>, <<"K">>, <<"M">>, <<"G">>, <<"T">>, <<"P">>, <<"E">>, <<"Z">>, <<"Y">>,
      <<"K", "B">>, <<"M", "B">>, <<"G", "B">>, <<"T", "B">>, <<"P", "B">>,
      <<"E", "B">>, <<"Z", "B">>, <<"Y", "B">>,
      <<"B">>, <<"k">>, <<"K", "i", "B">>, <<"x">>, <<"K", "K">> }

U64MaxDigits ==
    <<"1", "8", "4", "4", "6", "7", "4", "4", "0", "7",
      "3", "7", "0", "9", "5", "5", "1", "6", "1", "5">>

OtherTokens ==
    { <<"L">>, <<"1", "2", "x", "3", "4", "y">>, <<"x", "1", "2">>,
      <<"1", "K", "2">>, <<"-", "5">>, <<"+", "5">>, <<"1", ".", "5", "K">>,
      <<"1", " ", "K">>,
      U64MaxDigits, [U64MaxDigits EXCEPT ![20] = "6"],
      U64MaxDigits \o <<"K">>, <<"0">> \o U64MaxDigits }

\* the short flag of each stream option, src/stdbuf.rs:154-156
ShortFlag(name) ==
    CASE name = input -> <<"-", "i">>
      [] name = output -> <<"-", "o">>
      [] name = error -> <<"-", "e">>

SizeInit ==
    /\ \/ \E n \in 0..MaxDigits : \E d \in [1..n -> TokenDigits] :
             \E e \in TokenSuffixes : size = d \o e
       \/ size \in OtherTokens
    /\ stream \in {input, output, error}
    /\ parsed = None
    /\ resolved = None
    /\ spc = "start"
    /\ args = <<NAME>>
    /\ options = DefaultOptions
    /\ command_idx = -1
    /\ i = 1
    /\ pc = "idle"
    /\ printed = << >>
    /\ exit_status = 0
    /\ child = NoChild

\* parse_size(size), src/stdbuf.rs:62-95
CallParseSize ==
    /\ spc = "start"
    /\ parsed' = parse_size(size)
    /\ spc' = "parsed"
    /\ UNCHANGED <<size, stream, resolved, mainVars>>

\* check_option on the matches of `-i size`, `-o size` or `-e size`,
\* src/stdbuf.rs:97-122
CallCheckOption ==
    /\ spc = "parsed"
    /\ resolved' = check_option(getopts(<<ShortFlag(stream), size>>), stream, FALSE).val
    /\ spc' = "checked"
    /\ UNCHANGED <<size, stream, parsed, mainVars>>

SizeNext ==
    \/ CallParseSize
    \/ CallCheckOption

SizeSpec == SizeInit /\ [][SizeNext]_vars

----------------------------------------------------------------------------
(* The mode grammar, read off the token alone *)

KnownUnits ==
    { << >>, <<"K">>, <<"M">>, <<"G">>, <<"T">>, <<"P">>, <<"E">>, <<"Z">>, <<"Y">>,
      <<"K", "B">>, <<"M", "B">>, <<"G", "B">>, <<"T", "B">>, <<"P", "B">>,
      <<"E", "B">>, <<"Z", "B">>, <<"Y", "B">> }

\* the length of the leading run of decimal digits of tok
DigitRunLen(tok) ==
    LET stops == {k \in 1..Len(tok) : tok[k] \notin DigitChars}
    IN  IF stops = {} THEN Len(tok)
        ELSE (CHOOSE k \in stops : \A j \in stops : k <= j) - 1

DigitRun(tok) == SubSeq(tok, 1, DigitRunLen(tok))
AfterDigits(tok) == SubSeq(tok, DigitRunLen(tok) + 1, Len(tok))

\* the exact value of a run of decimal digits (acc is never empty)
RECURSIVE NatOfDigits(_, _)
NatOfDigits(ds, acc) ==
    IF ds = << >> \/ acc = << >> THEN acc
    ELSE NatOfDigits(Tail(ds),
             NatAdd(NatMul(acc, <<10>>), <<DigitValue(Head(ds))>>))

DigitRunValue(tok) == NatOfDigits(DigitRun(tok), <<0>>)

\* tok is a digit run that is not empty and fits 64 bits, followed by
\* alphabetic characters only
NumberThenLetters(tok) ==
    /\ DigitRunLen(tok) >= 1
    /\ \A k \in 1..Len(AfterDigits(tok)) : AfterDigits(tok)[k] \in AlphabeticChars
    /\ FitsU64(DigitRunValue(tok))

\* tok is acceptable as the mode of stream nm: "0", "L" (not for input), or
\* a 64-bit number followed by a known unit
WellFormedMode(nm, tok) ==
    \/ tok = <<"0">>
    \/ tok = <<"L">> /\ nm # input
    \/ tok # <<"L">> /\ NumberThenLetters(tok) /\ AfterDigits(tok) \in KnownUnits

----------------------------------------------------------------------------
(* Properties of the prefix scan (checked under Spec) *)

\* the outcome of the Option Resolver on the first k-1 arguments, whatever the
\* scan did before
ResultAt(k) == parse_options(slice(args, 1, k), DefaultOptions).res

StreamNames == {input, output, error}

\* the scan, read off the argument vector alone: the outcome of the first
\* prefix that is not Retryable, "Exhausted" when there is none
RECURSIVE ScanFrom(_)
ScanStep(k, res) == IF res = "Retry" THEN ScanFrom(k + 1) ELSE res
ScanFrom(k) == IF k > Len(args) THEN "Exhausted" ELSE ScanStep(k, ResultAt(k))

ScanFails == ScanFrom(1) \in {"Fatal", "Exhausted"}

SomePrefixResolves == \E k \in 1..Len(args) : ResultAt(k) = "Buffering"

\* C3: a command is launched only if some prefix attempt returned Resolved;
\* when the scan stops on Fatal or every prefix is Retryable, the program
\* leaves the loop with no command index, reports "Invalid options", sets
\* exit status 125 and never spawns a command.
C3_LaunchOnlyIfResolved ==
    /\ child.spawned => SomePrefixResolves
    /\ (pc # "loop" /\ ScanFails) =>
          /\ ~child.spawned
          /\ command_idx = -1
          /\ pc \in {"after", "done"}
          /\ pc = "done" =>
                /\ exit_status = 125
                /\ printed[Len(printed)] = "Invalid options"

\* a scan that a Fatal attempt stopped before the last prefix, reported
C3_Witness ==
    /\ pc = "done"
    /\ exit_status = 125
    /\ i < Len(args)
    /\ ResultAt(i) = "Fatal"
    /\ printed[Len(printed)] = "Invalid options"

HelpToken == <<"-", "-">> \o help
VersionToken == <<"-", "-">> \o version

\* C4: when the first argument is --help (--version), whatever follows it,
\* the scan ends at that argument: usage (the version) is printed and main
\* returns with exit status 0; "Invalid options" is never printed, the exit
\* status is never 125 and no command is spawned.
C4_HelpVersionShortCircuit ==
    (Len(args) >= 2 /\ args[2] \in {HelpToken, VersionToken}) =>
        /\ exit_status = 0
        /\ ~child.spawned
        /\ command_idx = -1
        /\ \A k \in 1..Len(printed) : printed[k] # "Invalid options"
        /\ \/ pc = "loop" /\ i <= 2 /\ printed = << >>
           \/ /\ pc = "done"
              /\ i = 2
              /\ printed = IF args[2] = HelpToken THEN <<"usage">>
                          ELSE <<"stdbuf version 1.0.0">>

\* --help followed by arguments that are no valid command line
C4_Witness ==
    /\ Len(args) >= 4
    /\ args[2] = HelpToken
    /\ args[3] = <<"-", "x">>
    /\ args[4] = <<"-", "i">>
    /\ pc = "done"
    /\ printed = <<"usage">>

\* the first k-1 arguments parse under the option grammar with exactly one
\* positional argument and none of -i/-o/-e
OnePositionalNoMode(k) ==
    LET m == getopts(slice(args, 1, k))
    IN  /\ m.ok
        /\ Len(m.free) = 1
        /\ \A nm \in StreamNames : ~opt_str(m, nm).some

\* C5: an attempt on a prefix with exactly one positional argument and no
\* stream option is Fatal and the invocation ends with exit status 125 and no
\* command; whenever a command is spawned, one of stdin, stdout, stderr is
\* not Default.
C5_ModeOptionRequired ==
    /\ (i <= Len(args) /\ OnePositionalNoMode(i)) =>
          /\ pc = "loop" => Attempt.res = "Fatal"
          /\ pc # "loop" =>
                /\ command_idx = -1
                /\ ~child.spawned
                /\ printed # << >>
                /\ pc \in {"after", "done"}
                /\ pc = "done" => exit_status = 125
    /\ child.spawned =>
          \E f \in {"stdin", "stdout", "stderr"} : options[f] # Default

\* `stdbuf cmd ...`: refused with the missing-mode diagnostic and exit 125
C5_Witness ==
    /\ pc = "done"
    /\ i <= Len(args)
    /\ OnePositionalNoMode(i)
    /\ exit_status = 125
    /\ printed = <<"stdbuf: you must specify a buffering mode option",
                  "Invalid options">>

\* the value a stream option was given in the first k-1 arguments
ModeTokenAt(k, nm) == opt_str(getopts(slice(args, 1, k)), nm)

OptionsField(nm) ==
    CASE nm = input -> "stdin" [] nm = output -> "stdout" [] nm = error -> "stderr"

\* C7: mode token "0" resolves to Unbuffered for each of the three streams,
\* "L" to Line for output and error; "L" for input makes the attempt Fatal,
\* and options.stdin is never Line, in particular not when a command is
\* spawned.
C7_ZeroAndLine ==
    /\ options.stdin # Line
    /\ command_idx # -1 =>
          \A nm \in StreamNames :
             /\ ModeTokenAt(i, nm) = Some(<<"0">>) =>
                   options[OptionsField(nm)] = Unbuffered
             /\ ModeTokenAt(i, nm) = Some(<<"L">>) =>
                   nm # input /\ options[OptionsField(nm)] = Line
    /\ (pc = "loop" /\ i <= Len(args) /\ getopts(slice(args, 1, i)).ok
          /\ ModeTokenAt(i, input) = Some(<<"L">>)) =>
             Attempt.res = "Fatal"

\* a command spawned with stdin unbuffered and stdout line buffered
C7_Witness ==
    /\ child.spawned
    /\ ModeTokenAt(i, input) = Some(<<"0">>)
    /\ ModeTokenAt(i, output) = Some(<<"L">>)
    /\ options.stdin = Unbuffered
    /\ options.stdout = Line

\* the first k-1 arguments parse under the option grammar and give some
\* stream option a mode token that is not acceptable
InvalidModeAt(k) ==
    /\ getopts(slice(args, 1, k)).ok
    /\ \E nm \in StreamNames :
          /\ ModeTokenAt(k, nm).some
          /\ ~WellFormedMode(nm, ModeTokenAt(k, nm).val)

\* C9: an attempt on a prefix that parses under the option grammar and holds
\* a stream option with an invalid mode token is Fatal, however many
\* positional arguments the prefix holds: the scan leaves the loop there with
\* no command index, and once the loop is left no further prefix is tried.
C9_InvalidModeStopsScan ==
    [][ /\ (pc = "loop" /\ i <= Len(args) /\ InvalidModeAt(i)) =>
              /\ Attempt.res = "Fatal"
              /\ pc' = "after"
              /\ i' = i
              /\ command_idx' = -1
        /\ pc # "loop" => (pc' # "loop" /\ i' = i /\ options' = options) ]_vars

\* the scan stopped by an invalid mode although the whole argument vector
\* would have resolved to help
C9_Witness ==
    /\ pc = "done"
    /\ exit_status = 125
    /\ i < Len(args)
    /\ InvalidModeAt(i)
    /\ ResultAt(Len(args)) = "Help"
    /\ printed = <<"Invalid mode", "Invalid options">>

\* the first k-1 arguments are a valid stream option prefix: they parse
\* under the option grammar with no positional argument, ask for neither help
\* nor version, and give at least one stream option, each an acceptable mode
ValidOptionPrefix(k) ==
    LET m == getopts(slice(args, 1, k))
    IN  /\ m.ok
        /\ m.free = << >>
        /\ ~opt_present(m, help)
        /\ ~opt_present(m, version)
        /\ \E nm \in StreamNames : opt_str(m, nm).some
        /\ \A nm \in StreamNames :
              opt_str(m, nm).some => WellFormedMode(nm, opt_str(m, nm).val)

\* args[k+1] (Rust index k) is the wrapped command: it follows a valid stream
\* option prefix, and is no option unless a "--" stands before it
CommandAt(k) ==
    /\ k + 1 <= Len(args)
    /\ ValidOptionPrefix(k)
    /\ ~is_arg(args[k + 1]) \/ (k >= 2 /\ args[k] = <<"-", "-">>)

\* C1: when a valid stream option prefix is followed by a wrapped command,
\* whatever the command's own arguments look like, the scan stops at the
\* first prefix that resolves, which ends with the command: the command index
\* is the command's, no longer prefix is tried, the options are those of that
\* prefix alone, and the command is spawned with all later arguments as its
\* own.
C1_BoundaryAtCommand ==
    pc # "loop" =>
        \A k \in 1..(Len(args) - 1) :
            CommandAt(k) =>
                /\ i = k + 1
                /\ command_idx = k
                /\ ScanFrom(1) = "Buffering"
                /\ options = parse_options(slice(args, 1, k + 1), DefaultOptions).options
                /\ child.spawned =>
                      /\ child.name = args[k + 1]
                      /\ child.args = SubSeq(args, k + 2, Len(args))

\* a command spawned with an argument of its own that is an option of the tool
C1_Witness ==
    /\ child.spawned
    /\ \E k \in 1..(Len(args) - 1) :
          /\ CommandAt(k)
          /\ k + 2 <= Len(args)
          /\ args[k + 2] = <<"-", "o">>
          /\ child.args[1] = <<"-", "o">>
          /\ options.stdout = Line

----------------------------------------------------------------------------
(* Properties of the mode-token parser (checked under SizeSpec) *)

UnitLetters == <<"K", "M", "G", "T", "P", "E", "Z", "Y">>

\* the rank 1..8 of a unit letter
Rank(c) == CHOOSE r \in 1..Len(UnitLetters) : UnitLetters[r] = c

\* tok is N<unit>: a 64-bit number and a unit letter, with or without B
SizedToken(tok) ==
    /\ NumberThenLetters(tok)
    /\ AfterDigits(tok) \in KnownUnits \ {<< >>}

HasB(tok) == Len(AfterDigits(tok)) = 2

\* exact powers and products
RECURSIVE NatPow(_, _)
NatPow(b, e) == IF e = 0 THEN <<1>> ELSE NatMul(b, NatPow(b, e - 1))

\* N x 1024^rank without B, N x 1000^rank with B
DocumentedSize(tok) ==
    NatMul(DigitRunValue(tok),
           NatPow(NatOfInt(IF HasB(tok) THEN 1000 ELSE 1024),
                  Rank(AfterDigits(tok)[1])))

\* C2 as stated: a valid token N<unit> parses to N x 1024^rank when the unit
\* has no trailing B and to N x 1000^rank when it has one; -o 64MB resolves
\* stdout to Size(64*1000*1000).
C2_UnitScaling ==
    /\ (spc # "start" /\ SizedToken(size) /\ FitsU64(DocumentedSize(size))) =>
          parsed = Some(LowU64(DocumentedSize(size)))
    /\ (spc = "checked" /\ stream = output /\ size = <<"6", "4", "M", "B">>) =>
          resolved = Some(Size(U64(64 * 1000 * 1000)))

\* the exact value of numeric value x base^power, with the base and the power
\* parse_size uses for the suffix
ExactScaled(tok) ==
    NatMul(DigitRunValue(tok),
           NatPow(NatOfInt(unit_of(AfterDigits(tok)).val.base),
                  unit_of(AfterDigits(tok)).val.power))

\* C6 as stated: a token whose numeric value times scale^power exceeds the
\* unsigned 64-bit range fails to parse.
C6_OverflowRejected ==
    (spc # "start" /\ SizedToken(size) /\ ~FitsU64(ExactScaled(size))) =>
        ~parsed.some

\* C8: a mode token other than "0" and "L" is accepted only if it is its
\* leading digit run followed by its trailing alphabetic run, the digit run
\* is not empty and is a 64-bit number, and the alphabetic run is a known
\* unit; then the resolved mode is a Size.  Every other token is rejected.
C8_AcceptedTokenShape ==
    /\ (spc # "start" /\ size \notin {<<"0">>, <<"L">>} /\ parsed.some) =>
          /\ DigitRun(size) \o trim_left_chars(size, DigitChars) = size
          /\ NumberThenLetters(size)
          /\ AfterDigits(size) \in KnownUnits
    /\ (spc = "checked" /\ size \notin {<<"0">>, <<"L">>}) =>
          /\ resolved.some = parsed.some
          /\ resolved.some => resolved.val.type = "Size"

\* a token with a character that is no digit before its unit was rejected
C8_Witness ==
    /\ spc = "checked"
    /\ size = <<"1", "2", "x", "3", "4", "y">>
    /\ ~parsed.some
    /\ ~resolved.some

=============================================================================
